---- MODULE Spec2Model ----
(***************************************************************************)
(* EthernetServer (drivers/Linux/EthernetServer.cpp): a polled,            *)
(* non-blocking TCP connection pool.  hasClient() runs one _accept()       *)
(* cycle, available() claims the oldest unclaimed connection, write()      *)
(* broadcasts a byte to every tracked client and reaps dead ones.          *)
(*                                                                         *)
(* The server is driven by a single caller thread.  hasClient() and        *)
(* available() contain only bounded loops and are single actions; the      *)
(* while loop of write() is modelled iteration by iteration (pc = "write") *)
(* because its termination is itself a property of interest.  Peer and     *)
(* application events happen between calls of the server (pc = "idle").    *)
(***************************************************************************)
EXTENDS Integers, Sequences, FiniteSets, Bags, TLC

\* ---- bounds of the model ------------------------------------------------
MaxFd == 3          \* size of the descriptor table: descriptors are 1..MaxFd
MaxClients == 2     \* the max_clients argument of the constructor
MaxQueue == 2       \* accept succeeds only while |new_clients| < MaxQueue
MaxBacklog == 1     \* inbound connections waiting in the listen backlog

FDs == 1..MaxFd

\* write(uint8_t b) is write(&b, 1): the broadcast modelled is of one byte
ByteSize == 1

VARIABLES
    max_clients,    \* EthernetServer::max_clients
    clients,        \* std::vector<int> clients       (the Active set)
    new_clients,    \* std::list<int> new_clients     (the Pending queue);
                    \* every entry carries a ghost rank "age" (1 = oldest)
    sock,           \* per descriptor: state of the OS socket behind it
    backlog,        \* connections completed by the OS, not yet accept()ed
    pc,             \* "idle", or "write" while inside write()'s loop
    i,              \* write(): loop index (0-based, as in the source)
    n,              \* write(): running byte total
    start,          \* ghost: clients, and their socket states, at the call of write()
    wlog,           \* ghost: the descriptors this pass called client.write on
    wbytes,         \* ghost: bag of the byte counts those calls returned
    last            \* the server operation that produced this state

vars == <<max_clients, clients, new_clients, sock, backlog,
          pc, i, n, start, wlog, wbytes, last>>

\* ---- the sockets behind the descriptors (EthernetClient) ----------------
\* "free"  no open descriptor with this number
\* "est"   connected
\* "half"  peer closed after sending: not connected, unread input
\* "dead"  peer closed, no unread input; the descriptor is still open
\* Unread input of a connected socket is not a state of its own: the server
\* tests connected() first (line 137) or or-ed with available() (line 174).
SockStates == {"free", "est", "half", "dead"}

connected(fd) == sock[fd] = "est"

hasInput(fd) == sock[fd] = "half"

\* the test of lines 174 and 186 without its available() half
isDeadIgnoresInput(fd) == ~connected(fd)

\* the test of lines 174 and 186: neither connected nor carrying input
isDead(fd) == ~connected(fd) /\ ~hasInput(fd)

\* ---- container helpers --------------------------------------------------
Range(s) == {s[k] : k \in 1..Len(s)}

Fds(q) == [k \in 1..Len(q) |-> q[k].fd]

\* the copy of line 142 / 177 left out: the last element is dropped instead
SwapRemoveNoCopy(s, k) == SubSeq(s, 1, Len(s) - 1)

\* clients[k] = clients.back(); clients.pop_back();   (k is 1-based here)
SwapRemove(s, k) == SubSeq([s EXCEPT ![k] = s[Len(s)]], 1, Len(s) - 1)

\* erase(it, end()) instead of erase(it)
EraseToEnd(q, k) == SubSeq(q, 1, k - 1)

\* new_clients.erase(it)
Erase(q, k) == SubSeq(q, 1, k - 1) \o SubSeq(q, k + 1, Len(q))

\* new_clients.pop_front()
PopFront(q) == Tail(q)

\* new_clients.front()
Front(q) == Head(q)

\* ghost: keep the ranks of the queued entries 1..Len, order preserved
Renumber(q) ==
    [k \in 1..Len(q) |->
        [fd |-> q[k].fd,
         age |-> Cardinality({j \in 1..Len(q) : q[j].age <= q[k].age})]]

\* push_front instead of push_back
PushFront(q, fd) == <<[fd |-> fd, age |-> Len(q) + 1]>> \o q

\* new_clients.push_back(fd): the new entry is the youngest
PushBack(q, fd) == Append(q, [fd |-> fd, age |-> Len(q) + 1])

\* the scan started at index 1 instead of 0: the first element is never examined
FirstDeadSkipsFirst(s) ==
    IF \E k \in 2..Len(s) : isDead(s[k])
    THEN CHOOSE k \in 2..Len(s) :
            isDead(s[k]) /\ \A j \in 2..(k - 1) : ~isDead(s[j])
    ELSE 0

\* for-loop of lines 172-182: first index whose client is dead, 0 if none
FirstDeadClient(s) ==
    IF \E k \in 1..Len(s) : isDead(s[k])
    THEN CHOOSE k \in 1..Len(s) :
            isDead(s[k]) /\ \A j \in 1..(k - 1) : ~isDead(s[j])
    ELSE 0

\* the liveness test of line 186 left out: the first queued entry is erased
FirstPendingAny(q) == IF Len(q) > 0 THEN 1 ELSE 0

\* for-loop of lines 184-191: first queued entry that is dead, 0 if none
FirstDeadPending(q) == FirstDeadClient(Fds(q))

\* accept(2) returns the lowest-numbered descriptor that is not open
FreeFds == {fd \in FDs : sock[fd] = "free"}

LowestFree == CHOOSE fd \in FreeFds : \A g \in FreeFds : fd <= g

\* ---- records of the last operation --------------------------------------
\* EthernetClient(0) instead of EthernetClient(): one above -1, which is
\* descriptor 0 and not "none"
NoFdZero == 1 - 1

NoFd == 0 - 1       \* EthernetClient(): _sock = -1

\* op: the operation; ret: its return value; acc: what accept(2) answered
\* ("full" when line 195 returned before the call); rec: which scan of
\* lines 172-192 removed an entry
Op(op, ret, acc, rec) == [op |-> op, ret |-> ret, acc |-> acc, rec |-> rec]

Init ==
    /\ max_clients = MaxClients
    /\ clients = <<>>
    /\ new_clients = <<>>
    /\ sock = [fd \in FDs |-> "free"]
    /\ backlog = 0
    /\ pc = "idle"
    /\ i = 0
    /\ n = 0
    /\ start = <<>>
    /\ wlog = <<>>
    /\ wbytes = EmptyBag
    /\ last = Op("init", FALSE, "none", "none")

\* ---- EthernetServer::_accept --------------------------------------------
\* res is what accept(2) answers if it is called:
\*   "ok"      a connection is waiting and a descriptor is free
\*   "eagain"  nothing is waiting (EAGAIN / EWOULDBLOCK)
\*   "error"   any other failure (EMFILE, ENOMEM, ...); backlog untouched
\* acc (recorded in last) is "full" when line 195 returns before accept.
AcceptPossible(res) ==
    \/ res = "ok" /\ backlog > 0 /\ FreeFds # {} /\ Len(new_clients) < MaxQueue
    \/ res = "eagain" /\ backlog = 0
    \/ res = "error"

\* line 169 comparing against one slot too many
FullOffByOne == Len(new_clients) + Len(clients) = max_clients + 1

\* line 169: new_clients.size() + clients.size() == max_clients
Full == Len(new_clients) + Len(clients) = max_clients

\* line 111 without the negation
IsEmpty(q) == q = <<>>

\* line 111: !new_clients.empty()
NotEmpty(q) == q # <<>>

_accept(res) ==
    LET ka == IF Full THEN FirstDeadClient(clients) ELSE 0
        kp == IF Full /\ ka = 0 THEN FirstDeadPending(new_clients) ELSE 0
        no_free_slots == Full /\ ka = 0 /\ kp = 0
        rec == IF ka # 0 THEN "active" ELSE IF kp # 0 THEN "pending" ELSE "none"
        c1 == IF ka # 0 THEN SwapRemove(clients, ka) ELSE clients
        q1 == IF kp # 0 THEN Renumber(Erase(new_clients, kp)) ELSE new_clients
        new_fd == LowestFree
    IN  IF no_free_slots
        THEN /\ UNCHANGED <<clients, new_clients, sock, backlog>>
             /\ last' = Op("hasClient", NotEmpty(new_clients), "full", rec)
        ELSE IF res = "ok"
        THEN /\ new_clients' = PushBack(q1, new_fd)
             /\ clients' = Append(c1, new_fd)
             /\ sock' = [sock EXCEPT ![new_fd] = "est"]
             /\ backlog' = backlog - 1
             /\ last' = Op("hasClient", NotEmpty(new_clients'), "ok", rec)
        ELSE /\ new_clients' = q1
             /\ clients' = c1
             /\ UNCHANGED <<sock, backlog>>
             /\ last' = Op("hasClient", NotEmpty(new_clients'), res, rec)

\* ---- EthernetServer::hasClient ------------------------------------------
hasClient ==
    /\ pc = "idle"
    /\ \E res \in {"ok", "eagain", "error"} :
          /\ AcceptPossible(res)
          /\ _accept(res)
    /\ UNCHANGED <<max_clients, pc, i, n, start, wlog, wbytes>>

\* ---- EthernetServer::available ------------------------------------------
available ==
    /\ pc = "idle"
    /\ IF new_clients = <<>>
       THEN /\ last' = Op("available", NoFd, "none", "none")
            /\ UNCHANGED new_clients
       ELSE /\ last' = Op("available", Front(new_clients).fd, "none", "none")
            /\ new_clients' = Renumber(PopFront(new_clients))
    /\ UNCHANGED <<max_clients, clients, sock, backlog,
                   pc, i, n, start, wlog, wbytes>>

\* ---- EthernetServer::write(b) = write(&b, 1) ----------------------------
writeCall ==
    /\ pc = "idle"
    /\ pc' = "write"
    /\ i' = 0
    /\ n' = 0
    /\ start' = [k \in 1..Len(clients) |->
                    [fd |-> clients[k], st |-> sock[clients[k]]]]
    /\ wlog' = <<>>
    /\ wbytes' = EmptyBag
    /\ last' = Op("writing", 0, "none", "none")
    /\ UNCHANGED <<max_clients, clients, new_clients, sock, backlog>>

\* one iteration of the while loop, lines 135-146.  A client that is not
\* connected but has unread input takes neither branch: nothing is assigned
\* and the loop condition is evaluated again on the same i.
writeLoop ==
    /\ pc = "write"
    /\ i < Len(clients)
    /\ LET fd == clients[i + 1]
       IN  IF connected(fd)
           THEN \E w \in 0..ByteSize :
                  /\ n' = n + w
                  /\ i' = i + 1
                  /\ wlog' = Append(wlog, fd)
                  /\ wbytes' = wbytes (+) SetToBag({w})
                  /\ UNCHANGED <<clients, sock>>
           ELSE IF ~hasInput(fd)
           THEN /\ sock' = [sock EXCEPT ![fd] = "free"]
                /\ clients' = SwapRemove(clients, i + 1)
                /\ UNCHANGED <<i, n, wlog, wbytes>>
           ELSE UNCHANGED <<clients, sock, i, n, wlog, wbytes>>
    /\ UNCHANGED <<max_clients, new_clients, backlog, pc, start, last>>

\* loop exit and "return n", lines 135 and 148
writeReturn ==
    /\ pc = "write"
    /\ ~(i < Len(clients))
    /\ pc' = "idle"
    /\ last' = Op("write", n, "none", "none")
    /\ i' = 0
    /\ n' = 0
    /\ start' = <<>>
    /\ wlog' = <<>>
    /\ wbytes' = EmptyBag
    /\ UNCHANGED <<max_clients, clients, new_clients, sock, backlog>>

\* ---- the environment: peers, the OS and the embedding application -------
Env(s, b) ==
    /\ pc = "idle"
    /\ sock' = s
    /\ backlog' = b
    /\ last' = Op("env", FALSE, "none", "none")
    /\ UNCHANGED <<max_clients, clients, new_clients, pc, i, n, start, wlog, wbytes>>

\* a peer completes a TCP handshake with the listening socket
peerConnect ==
    /\ backlog < MaxBacklog
    /\ Env(sock, backlog + 1)

\* a connected peer sends bytes and closes its end before they are read
peerSendClose ==
    \E fd \in FDs :
       /\ connected(fd)
       /\ Env([sock EXCEPT ![fd] = "half"], backlog)

\* a connected peer closes its end, nothing unread
peerClose ==
    \E fd \in FDs :
       /\ connected(fd)
       /\ Env([sock EXCEPT ![fd] = "dead"], backlog)

\* the application reads the unread input of a client it has claimed
appRead ==
    \E fd \in FDs :
       /\ hasInput(fd)
       /\ Env([sock EXCEPT ![fd] = "dead"], backlog)

Next ==
    \/ hasClient
    \/ available
    \/ writeCall
    \/ writeLoop
    \/ writeReturn
    \/ peerConnect
    \/ peerSendClose
    \/ peerClose
    \/ appRead

Spec == Init /\ [][Next]_vars

TypeOK ==
    /\ max_clients = MaxClients
    /\ sock \in [FDs -> SockStates]
    /\ backlog \in 0..MaxBacklog
    /\ pc \in {"idle", "write"}
    /\ Range(clients) \subseteq FDs
    /\ Range(Fds(new_clients)) \subseteq FDs

\* the caller keeps running an operation it has entered
FairSpec == Spec /\ WF_vars(writeLoop) /\ WF_vars(writeReturn)

\* a call of hasClient() in which accept(2) hands out a connection (lines 197-209)
acceptOk == hasClient /\ last'.acc = "ok"

\* the caller polls hasClient() again and again, and accept(2) does not fail
\* for ever while it could succeed
PollSpec == FairSpec /\ SF_vars(acceptOk)

\* ---- vocabulary of the properties --------------------------------------
\* the socket behind fd is disconnected and has no unread input
DeadSock(fd) == sock[fd] \in {"dead", "free"}

LiveSock(fd) == sock[fd] \in {"est", "half"}

Pending == Fds(new_clients)

Tracked == Range(clients) \cup Range(Pending)

AtCapacity == Len(clients) + Len(new_clients) = max_clients

\* the step is a call of hasClient()
HasClientStep == pc = "idle" /\ last'.op = "hasClient"

\* the step is a call of available()
AvailableStep == pc = "idle" /\ last'.op = "available"

\* write() has left its loop and is about to return n
WriteDone == pc = "write" /\ ~(i < Len(clients))

\* the sum of the byte counts in a bag of client.write results
RECURSIVE SumBytes(_, _)
SumBytes(b, vals) ==
    IF vals = {} THEN 0
    ELSE LET v == CHOOSE x \in vals : TRUE
         IN  v * CopiesIn(v, b) + SumBytes(b, vals \ {v})

StartFds(states) == {start[k].fd : k \in {j \in 1..Len(start) : start[j].st \in states}}

\* C1: in every reachable state |Active| + |Pending| <= Capacity.
C1_CapacityBound == Len(clients) + Len(new_clients) <= max_clients

\* C2: every broadcast returns: a write() that has been entered leaves its
\* loop, also when Active holds a handle that is disconnected with unread
\* input (which is kept, not written to, and passed over).
C2_BroadcastTerminates == (pc = "write") ~> (pc = "idle")

\* C3: a broadcast over N connected and M dead handles removes exactly the
\* M dead ones, keeps the N connected ones, and returns the sum of the byte
\* counts of the N individual writes.
C3_BroadcastResult ==
    (WriteDone /\ StartFds({"half"}) = {}) =>
        /\ Range(clients) = StartFds({"est"})
        /\ Len(clients) = Cardinality(StartFds({"est"}))
        /\ StartFds({"dead"}) \cap Range(clients) = {}
        /\ Len(start) - Len(clients) = Cardinality(StartFds({"dead"}))
        /\ Len(wlog) = Len(clients)
        /\ BagCardinality(wbytes) = Len(clients)
        /\ n = SumBytes(wbytes, 0..ByteSize)

\* a pass over two connected and one dead handle has finished, with bytes written
C3_Witness ==
    /\ WriteDone
    /\ Cardinality(StartFds({"est"})) >= 2
    /\ StartFds({"dead"}) # {}
    /\ n > 0

\* C4: at capacity with every tracked handle live and an inbound connection
\* waiting, hasClient() accepts nothing: Active, Pending and the backlog
\* are unchanged.
C4_FullPoolRefuses ==
    [][(HasClientStep /\ AtCapacity /\ backlog > 0
            /\ \A fd \in Tracked : LiveSock(fd))
        => UNCHANGED <<clients, new_clients, backlog, sock>>]_vars

\* hasClient() has just refused at capacity, a connection still waits
C4_Witness ==
    /\ last.op = "hasClient"
    /\ last.acc = "full"
    /\ AtCapacity
    /\ clients # <<>>
    /\ backlog > 0
    /\ \A fd \in Tracked : LiveSock(fd)

\* ---- vocabulary of the accept cycle ------------------------------------
Count(s, x) == Cardinality({k \in 1..Len(s) : s[k] = x})

RemoveAt(s, k) == [j \in 1..(Len(s) - 1) |-> IF j < k THEN s[j] ELSE s[j + 1]]

SameBag(s, t) == Len(s) = Len(t) /\ \A fd \in FDs : Count(s, fd) = Count(t, fd)

AllButLast(s) == SubSeq(s, 1, Len(s) - 1)

\* the step appended one new descriptor, taken from the backlog, to both containers
AcceptedOne ==
    /\ Len(clients') >= 1
    /\ Len(new_clients') >= 1
    /\ LET f == clients'[Len(clients')]
       IN  /\ sock[f] = "free"
           /\ sock' = [sock EXCEPT ![f] = "est"]
           /\ new_clients'[Len(new_clients')].fd = f
    /\ backlog' = backlog - 1

AcceptedNone == backlog' = backlog /\ sock' = sock

\* kc, kq: what the step left of the old clients and of the old queue;
\* exactly one dead entry is missing, from one of the two
ReclaimedOne(kc, kq) ==
    \/ /\ \E k \in 1..Len(clients) :
             DeadSock(clients[k]) /\ SameBag(kc, RemoveAt(clients, k))
       /\ kq = Pending
    \/ /\ \E k \in 1..Len(Pending) :
             DeadSock(Pending[k]) /\ kq = RemoveAt(Pending, k)
       /\ kc = clients

SomeTrackedDead == \E fd \in Tracked : DeadSock(fd)

\* C5 as stated: at capacity, with a dead tracked handle and an inbound
\* connection waiting, one hasClient() reclaims exactly one dead handle and
\* accepts exactly one new connection.
C5_ReclaimAndAccept ==
    [][(HasClientStep /\ AtCapacity /\ SomeTrackedDead /\ backlog > 0)
        => /\ AcceptedOne
           /\ ReclaimedOne(AllButLast(clients'), AllButLast(Fds(new_clients')))]_vars

\* C5 amended: in that situation exactly one dead handle is reclaimed, and
\* exactly one new connection is accepted if accept(2) succeeds, none if it
\* fails.
C5_ReclaimThenAcceptIfOk ==
    [][(HasClientStep /\ AtCapacity /\ SomeTrackedDead /\ backlog > 0)
        => IF last'.acc = "ok"
           THEN /\ AcceptedOne
                /\ ReclaimedOne(AllButLast(clients'), AllButLast(Fds(new_clients')))
           ELSE /\ AcceptedNone
                /\ ReclaimedOne(clients', Fds(new_clients'))]_vars

\* hasClient() has just reclaimed one entry and accepted a connection
C5_Witness ==
    /\ last.op = "hasClient"
    /\ last.acc = "ok"
    /\ last.rec # "none"
    /\ Len(clients) + Len(new_clients) = max_clients + 1

\* C6: every handle that leaves Active, in the accept cycle or in
\* broadcast, has its descriptor closed by the step that removes it.
C6_EvictedIsClosed ==
    [][clients' # clients =>
        \A fd \in FDs :
          Count(clients', fd) < Count(clients, fd)
             => sock[fd] # "free" /\ sock'[fd] = "free"]_vars

\* C7: a handle leaves Active only if, when it is examined, it is
\* disconnected and has no unread input.
C7_OnlyDeadLeaveActive ==
    [][clients' # clients =>
        \A fd \in FDs :
          Count(clients', fd) < Count(clients, fd) => DeadSock(fd)]_vars

\* the accept cycle has removed a dead handle from Active and kept a
\* half-closed one that still has unread input
C7_Witness ==
    /\ last.op = "hasClient"
    /\ last.rec = "active"
    /\ \E fd \in Range(clients) : sock[fd] = "half"

C9_TakeOldest ==
    [][(AvailableStep /\ new_clients # <<>>)
        => LET k == CHOOSE k \in 1..Len(new_clients) :
                       \A j \in 1..Len(new_clients) :
                           new_clients[k].age <= new_clients[j].age
           IN  /\ last'.ret = new_clients[k].fd
               /\ Fds(new_clients') = RemoveAt(Pending, k)
               /\ clients' = clients
               /\ sock' = sock]_vars

\* a handle has been claimed while a younger one stays queued
C9_Witness ==
    /\ last.op = "available"
    /\ last.ret # NoFd
    /\ new_clients # <<>>
    /\ last.ret # new_clients[1].fd

AcceptFailed == last'.acc \in {"eagain", "error"}

\* C10 as stated: if accept(2) answers would-block or fails, Active and
\* Pending are as before the call, in every pool state; on an empty pool
\* without inbound traffic hasClient() returns FALSE.
C10_FailedAcceptNoChange ==
    [][HasClientStep
        => /\ AcceptFailed => UNCHANGED <<clients, new_clients>>
           /\ (clients = <<>> /\ new_clients = <<>> /\ backlog = 0)
                 => last'.ret = FALSE]_vars

\* C10 amended: if accept(2) answers would-block or fails, no handle is
\* added; Active and Pending are as before the call, except that a pool
\* that was at capacity with a dead tracked handle has lost exactly that
\* one dead handle to the reclamation scan that precedes accept(2); on an
\* empty pool without inbound traffic hasClient() returns FALSE.
C10_FailedAcceptAddsNothing ==
    [][HasClientStep
        => /\ AcceptFailed =>
                /\ AcceptedNone
                /\ IF AtCapacity /\ SomeTrackedDead
                   THEN ReclaimedOne(clients', Fds(new_clients'))
                   ELSE UNCHANGED <<clients, new_clients>>
           /\ (clients = <<>> /\ new_clients = <<>> /\ backlog = 0)
                 => last'.ret = FALSE]_vars

\* accept(2) failed after the scan had already reclaimed an entry
C10_Witness ==
    /\ last.op = "hasClient"
    /\ last.acc \in {"eagain", "error"}
    /\ last.rec # "none"

\* C11: available() on an empty queue returns the "none" handle (descriptor
\* -1) and changes neither Active nor Pending, however often it is called.
C11_TakeFromEmpty ==
    [][(AvailableStep /\ new_clients = <<>>)
        => /\ last'.ret < 0
           /\ last'.ret \notin FDs
           /\ UNCHANGED <<clients, new_clients, sock, backlog>>]_vars

\* available() has just answered "none" while clients are tracked
C11_Witness ==
    /\ last.op = "available"
    /\ last.ret < 0
    /\ new_clients = <<>>
    /\ clients # <<>>

\* ---- the capacity-2 scenario --------------------------------------------
AllConnected(s) == \A k \in 1..Len(s) : connected(s[k])

WriteStuck ==
    /\ pc = "write"
    /\ i < Len(clients)
    /\ ~connected(clients[i + 1])
    /\ hasInput(clients[i + 1])

\* an inbound connection waits, the pool is at capacity, a tracked handle has
\* become dead, and accept(2) has a descriptor to hand out
WaitingAtCapacity ==
    /\ pc = "idle"
    /\ backlog > 0
    /\ AtCapacity
    /\ SomeTrackedDead
    /\ FreeFds # {}
    /\ Len(new_clients) < MaxQueue

\* C13: an inbound connection that waits while the pool is at capacity is
\* accepted eventually once a tracked handle has become dead, as long as the
\* caller goes on polling hasClient().
C13_CapacityRecovers ==
    WaitingAtCapacity ~> ((last.op = "hasClient" /\ last.acc = "ok") \/ WriteStuck)

\* the waiting connection has been accepted in the place of a dead handle
C13_Witness ==
    /\ last.op = "hasClient"
    /\ last.acc = "ok"
    /\ last.rec # "none"
    /\ Len(clients) + Len(new_clients) > max_clients

\* C14: an evicted handle is gone for good. Stated for each single step,
\* which needs no history: a handle that leaves Active is afterwards neither in
\* Active nor in Pending, and a connection that is accepted gets a descriptor
\* that no entry of the pool refers to.
C14_EvictedIsTerminal ==
    [][(clients' # clients) =>
        /\ \A fd \in FDs :
             Count(clients', fd) < Count(clients, fd)
             => fd \notin (Range(clients') \cup Range(Pending'))
        /\ (HasClientStep /\ last'.acc = "ok")
            => clients'[Len(clients')] \notin
                 (Range(AllButLast(clients')) \cup Range(AllButLast(Pending')))]_vars

\* C15: an entry leaves Pending only in available(), which takes the front
\* entry, or in the reclamation scan of hasClient(), which takes one dead
\* entry from a pool at capacity; write() changes neither the contents nor
\* the order of Pending.
C15_PendingLeaves ==
    [][(new_clients' # new_clients) =>
        /\ pc = "idle" /\ pc' = "idle"
        /\ last'.op \in {"available", "hasClient"}
        /\ (last'.op = "available") => (Pending' = Tail(Pending))
        /\ (last'.op = "hasClient")
            => LET kq == IF last'.acc = "ok" THEN AllButLast(Pending') ELSE Pending'
               IN  \/ kq = Pending
                   \/ /\ AtCapacity
                      /\ \E k \in 1..Len(Pending) :
                            DeadSock(Pending[k]) /\ kq = RemoveAt(Pending, k)]_vars

\* a write() pass has evicted a dead handle from Active and the handle is
\* still queued in Pending
C15_Witness ==
    /\ pc = "write"
    /\ \E fd \in StartFds({"dead"}) : fd \notin Range(clients) /\ fd \in Range(Pending)

\* C16: in one write() call every handle that is in Active and connected
\* gets exactly one client.write: none is written to twice, and each one is
\* written to by the time the pass is over, whatever is evicted on the way
\* and whatever the earlier writes returned.
C16_EachConnectedWrittenOnce ==
    /\ [](pc = "write" => \A fd \in FDs : Count(wlog, fd) <= 1)
    /\ \A fd \in FDs :
         (pc = "write" /\ fd \in StartFds({"est"}))
         ~> (WriteDone /\ Count(wlog, fd) = 1)

\* C17: a reclamation attempt (hasClient() on a pool at capacity) scans
\* Active first and Pending second: with a dead handle in Active the first
\* such handle is removed from Active and Pending is left alone; Pending
\* loses an entry, its first dead one, only when no handle of Active is
\* dead; an attempt removes at most one handle, and a call that is not a
\* reclamation attempt removes none.
C17_ActiveThenPending ==
    [][HasClientStep =>
        LET kc == IF last'.acc = "ok" THEN AllButLast(clients') ELSE clients'
            kq == IF last'.acc = "ok" THEN AllButLast(Pending') ELSE Pending'
            deadA == {k \in 1..Len(clients) : DeadSock(clients[k])}
            deadP == {k \in 1..Len(Pending) : DeadSock(Pending[k])}
        IN  IF AtCapacity /\ deadA # {}
            THEN /\ \E k \in deadA :
                      /\ \A j \in deadA : k <= j
                      /\ SameBag(kc, RemoveAt(clients, k))
                 /\ kq = Pending
                 /\ last'.rec = "active"
            ELSE IF AtCapacity /\ deadP # {}
            THEN /\ \E k \in deadP :
                      /\ \A j \in deadP : k <= j
                      /\ kq = RemoveAt(Pending, k)
                 /\ kc = clients
                 /\ last'.rec = "pending"
            ELSE /\ kc = clients
                 /\ kq = Pending
                 /\ last'.rec = "none"]_vars

\* a reclamation attempt has just taken a dead handle out of Active while a
\* dead entry of Pending was left where it was
C17_Witness ==
    /\ last.op = "hasClient"
    /\ last.rec = "active"
    /\ \E k \in 1..Len(Pending) : DeadSock(Pending[k])

\* C18: every handle queued in Pending is also in Active, and is an open
\* descriptor, so that available() never hands out an evicted or closed
\* handle.
C18_PendingWithinActive ==
    /\ Range(Pending) \subseteq Range(clients)
    /\ \A fd \in Range(Pending) : sock[fd] # "free"
    /\ (last.op = "available" /\ last.ret \in FDs) => sock[last.ret] # "free"

\* C19: Active never holds more handles than max_clients.
C19_ActiveWithinCapacity == Len(clients) <= max_clients

\* C20: no descriptor is held twice in Active, and none twice in Pending.
C20_NoDuplicates ==
    \A fd \in FDs : Count(clients, fd) <= 1 /\ Count(Pending, fd) <= 1
====
